---- MODULE Spec2Model ----
(***************************************************************************)
(* Model of src/main.py: the /paused_campaigns endpoint.  One inbound      *)
(* request is validated, a list request is sent to the platform, one       *)
(* detail (insights) request per listed campaign is run under              *)
(* asyncio.gather(return_exceptions=True), and the results are merged      *)
(* positionally into the response.                                         *)
(*                                                                         *)
(* Strings are sequences of one-character strings, so that float(str),     *)
(* the substring test and the two-decimal formatting are computed and not  *)
(* assumed.  A Python float is a record: a finite value is the exact       *)
(* rational num/den, and nan and +-inf are kept as their own kinds.        *)
(***************************************************************************)
EXTENDS Integers, Sequences, FiniteSets, TLC

(***************************************************************************)
(* Bounds of the model.                                                    *)
(***************************************************************************)
\* longest campaign list the platform answers with
MaxCamps == 2

(***************************************************************************)
(* Characters and decimal text.                                            *)
(***************************************************************************)
Digits == <<"0", "1", "2", "3", "4", "5", "6", "7", "8", "9">>

IsDigit(c) == \E i \in 1..Len(Digits) : Digits[i] = c

DigitVal(c) == (CHOOSE i \in 1..Len(Digits) : Digits[i] = c) - 1

RECURSIVE Pow10(_)
Pow10(n) == IF n = 0 THEN 1 ELSE 10 * Pow10(n - 1)

\* str(n) for an integer n >= 0
RECURSIVE NatStr(_)
NatStr(n) == IF n < 10 THEN <<Digits[n + 1]>> ELSE NatStr(n \div 10) \o <<Digits[(n % 10) + 1]>>

\* value of a sequence of digits
RECURSIVE DigitsVal(_)
DigitsVal(s) == IF s = <<>> THEN 0 ELSE 10 * DigitsVal(SubSeq(s, 1, Len(s) - 1)) + DigitVal(s[Len(s)])

\* Python's "needle in haystack" for two strings
Contains(hay, needle) ==
    \E i \in 1..(Len(hay) - Len(needle) + 1) : SubSeq(hay, i, i + Len(needle) - 1) = needle

(***************************************************************************)
(* Python floats.                                                          *)
(***************************************************************************)
Fin(n, d) == [k |-> "fin", num |-> n, den |-> d]
NaN == [k |-> "nan", num |-> 0, den |-> 1]
Inf(sign) == [k |-> "inf", num |-> sign, den |-> 1]
\* the marker of a conversion that raised
Raised == [k |-> "raise", num |-> 0, den |-> 1]

Abs(n) == IF n < 0 THEN -n ELSE n

\* float(s) for a string s: optional sign, then nan, inf, or digits with at
\* most one point and at least one digit; anything else raises ValueError
str_to_float(s) ==
    LET neg  == Len(s) > 0 /\ s[1] = "-"
        body == IF neg THEN Tail(s) ELSE s
        sgn  == IF neg THEN -1 ELSE 1
        dots == {i \in 1..Len(body) : body[i] = "."}
        p    == IF dots = {} THEN Len(body) + 1 ELSE CHOOSE i \in dots : TRUE
        ip   == SubSeq(body, 1, p - 1)
        fp   == SubSeq(body, p + 1, Len(body))
    IN  IF body = <<"n", "a", "n">> THEN NaN
        ELSE IF body = <<"i", "n", "f">> THEN Inf(sgn)
        ELSE IF /\ Cardinality(dots) <= 1
                /\ Len(ip) + Len(fp) > 0
                /\ \A i \in 1..Len(body) : i \in dots \/ IsDigit(body[i])
             THEN Fin(sgn * (DigitsVal(ip) * Pow10(Len(fp)) + DigitsVal(fp)), Pow10(Len(fp)))
             ELSE Raised

\* int(f) for a finite f: truncation toward zero
float_to_int(f) ==
    IF f.num < 0 THEN -(Abs(f.num) \div f.den) ELSE f.num \div f.den

\* f > 0
Positive(f) == f.k # "nan" /\ f.num > 0

\* a / b * 100 for b > 0 (the sign of a zero quotient is not kept: the only
\* such quotient has b = inf, and int(inf) raises before it is rendered)
DivTimes100(a, b) ==
    IF a.k = "nan" THEN NaN
    ELSE IF b.k = "inf" THEN (IF a.k = "inf" THEN NaN ELSE Fin(0, 1))
    ELSE IF a.k = "inf" THEN a
    ELSE Fin(a.num * b.den * 100, a.den * b.num)

\* f"{value:.2f}": round half to even at two decimals, keep the sign of a
\* negative value, at least one digit before the point
Fmt2f(f) ==
    IF f.k = "nan" THEN <<"n", "a", "n">>
    ELSE IF f.k = "inf" THEN (IF f.num < 0 THEN <<"-">> ELSE <<>>) \o <<"i", "n", "f">>
    ELSE LET a   == Abs(f.num) * 100
             q   == a \div f.den
             rem == a % f.den
             h   == IF 2 * rem > f.den \/ (2 * rem = f.den /\ q % 2 = 1) THEN q + 1 ELSE q
             c   == h % 100
         IN  (IF f.num < 0 THEN <<"-">> ELSE <<>>)
                 \o NatStr(h \div 100) \o <<".">> \o <<Digits[(c \div 10) + 1], Digits[(c % 10) + 1]>>

format_percentage(value) == Fmt2f(value) \o <<"%">>

format_currency(value) == Fmt2f(value)

(***************************************************************************)
(* Decoded JSON values.                                                    *)
(***************************************************************************)
\* a JSON member: absent from its object, null, a string or a number
Absent == [t |-> "absent", s |-> <<>>, f |-> Fin(0, 1)]
Null == [t |-> "null", s |-> <<>>, f |-> Fin(0, 1)]
Str(chars) == [t |-> "str", s |-> chars, f |-> Fin(0, 1)]
Num(fl) == [t |-> "num", s |-> <<>>, f |-> fl]

\* Python truthiness of payload.get(key): None, "" and 0 are false
Truthy(v) ==
    \/ v.t = "str" /\ v.s # <<>>
    \/ v.t = "num" /\ (v.f.k # "fin" \/ v.f.num # 0)

\* the text an f-string puts for the value
PyStr(v) == IF v.t = "str" THEN v.s ELSE NatStr(v.f.num \div v.f.den)

\* float(item.get(key, 0)) inside its try: the float, or Raised
field_to_float(item, key) ==
    IF ~item.isobj THEN Raised
    ELSE LET v == item[key]
         IN  CASE v.t = "absent" -> Fin(0, 1)
               [] v.t = "null"   -> Raised
               [] v.t = "str"    -> str_to_float(v.s)
               [] v.t = "num"    -> v.f

\* the except branches of lines 154-156, 160-162 and 166-168
OrZero(f) == IF f = Raised THEN Fin(0, 1) ELSE f

(***************************************************************************)
(* Exceptions and results of awaited calls.                                *)
(***************************************************************************)
Exc(type, msg) == [type |-> type, msg |-> msg]

NoExc == Exc("none", <<>>)

\* str(e) of the failures whose text the libraries choose
TransportText == <<"c", "o", "n", "n">>
DecodeText == <<"j", "s", "o", "n">>
NotIterableText == <<"n", "o", "t", " ", "i", "t", "e", "r">>
IndicesText == <<"i", "n", "d", "i", "c", "e", "s">>
NotSubscriptableText == <<"n", "o", "t", " ", "s", "u", "b">>
NanToIntText == <<"N", "a", "N", " ", "t", "o", " ", "i", "n", "t">>
InfToIntText == <<"i", "n", "f", " ", "t", "o", " ", "i", "n", "t">>

\* f"Erro {resp.status}: {response_text}"
ErroText(status, response_text) ==
    <<"E", "r", "r", "o", " ">> \o NatStr(status) \o <<":", " ">> \o response_text

DataKey == <<"d", "a", "t", "a">>

EmptyData == [t |-> "absent", n |-> 0, items |-> <<>>]

EmptyBody == [t |-> "obj", s |-> <<>>, data |-> EmptyData]

\* what one position of gather's result list holds: an exception or a body
Failure(e) == [exc |-> TRUE, e |-> e, body |-> EmptyBody]
Success(b) == [exc |-> FALSE, e |-> NoExc, body |-> b]

Pending == Failure(NoExc)

\* a fetch without the status test of lines 62 and 110
fetch_exception_ignoring_status(o) ==
    CASE o.kind = "transport" -> Exc("ClientError", TransportText)
      [] o.kind = "timeout"   -> Exc("TimeoutError", <<>>)
      [] o.kind = "http" /\ ~o.json_ok -> Exc("DecodeError", DecodeText)
      [] OTHER -> NoExc

\* the exception session.get / resp.text / resp.json ends with for an
\* upstream outcome, or NoExc (lines 50-71 and 98-119)
fetch_exception(o) ==
    CASE o.kind = "transport" -> Exc("ClientError", TransportText)
      [] o.kind = "timeout"   -> Exc("TimeoutError", <<>>)
      [] o.kind = "http" /\ o.status # 200 ->
             Exc("Exception", ErroText(o.status, IF o.text_ok THEN o.text ELSE <<>>))
      [] o.kind = "http" /\ o.status = 200 /\ ~o.json_ok -> Exc("DecodeError", DecodeText)
      [] OTHER -> NoExc

\* fetch_campaign_insights: raise, or return the decoded body
fetch_campaign_insights(o) ==
    IF fetch_exception(o) # NoExc THEN Failure(fetch_exception(o)) ELSE Success(o.body)

(***************************************************************************)
(* The merge of one campaign with its gather result (lines 134-180).       *)
(***************************************************************************)
\* bool(insight["data"]) for a member that is present
DataTruthy(d) ==
    CASE d.t = "list" -> d.items # <<>>
      [] d.t = "num"  -> d.n # 0
      [] d.t = "obj"  -> d.n # 0
      [] OTHER        -> FALSE

\* line 148, `"data" in insight and insight["data"]`: the exception it
\* raises, or NoExc
data_test_exception(b) ==
    CASE b.t \in {"null", "num"} -> Exc("TypeError", NotIterableText)
      [] b.t = "str" /\ Contains(b.s, DataKey) -> Exc("TypeError", IndicesText)
      [] OTHER -> NoExc

\* line 148 when it does not raise
has_data(b) == b.t = "obj" /\ b.data.t # "absent" /\ DataTruthy(b.data)

\* line 149, insight["data"][0]: the exception it raises, or NoExc
first_item_exception(d) ==
    CASE d.t = "num" -> Exc("TypeError", NotSubscriptableText)
      [] d.t = "obj" -> Exc("KeyError", <<"0">>)
      [] OTHER -> NoExc

\* lines 151-168: the three independent conversions
parsed_impressions(item) == OrZero(field_to_float(item, "impressions"))
parsed_clicks(item) == OrZero(field_to_float(item, "clicks"))
parsed_cpc(item) == OrZero(field_to_float(item, "cpc"))

\* line 170
ctr_value(impressions, clicks) ==
    IF Positive(impressions) THEN DivTimes100(clicks, impressions) ELSE Fin(0, 1)

\* int(x) of lines 173-174: the exception it raises, or NoExc
int_exception(f) ==
    CASE f.k = "nan" -> Exc("ValueError", NanToIntText)
      [] f.k = "inf" -> Exc("OverflowError", InfToIntText)
      [] OTHER -> NoExc

FirstExc(es) ==
    IF \E i \in 1..Len(es) : es[i] # NoExc
    THEN es[CHOOSE i \in 1..Len(es) : es[i] # NoExc /\ \A j \in 1..(i - 1) : es[j] = NoExc]
    ELSE NoExc

\* a loop body that takes insight["data"][0] without the test of line 148
merge_exception_unguarded(insight) ==
    IF insight.exc THEN NoExc
    ELSE IF data_test_exception(insight.body) # NoExc THEN data_test_exception(insight.body)
    ELSE IF ~has_data(insight.body) THEN Exc("IndexError", <<"0">>)
    ELSE IF first_item_exception(insight.body.data) # NoExc
         THEN first_item_exception(insight.body.data)
    ELSE LET item == insight.body.data.items[1]
         IN  FirstExc(<<int_exception(parsed_impressions(item)),
                        int_exception(parsed_clicks(item))>>)

\* the exception that escapes the loop body for this campaign, or NoExc
merge_exception(insight) ==
    IF insight.exc THEN NoExc
    ELSE IF data_test_exception(insight.body) # NoExc THEN data_test_exception(insight.body)
    ELSE IF ~has_data(insight.body) THEN NoExc
    ELSE IF first_item_exception(insight.body.data) # NoExc
         THEN first_item_exception(insight.body.data)
    ELSE LET item == insight.body.data.items[1]
         IN  FirstExc(<<int_exception(parsed_impressions(item)),
                        int_exception(parsed_clicks(item))>>)

\* lines 136-143: the report every campaign starts from
default_report(camp) ==
    [id               |-> camp.id.s,
     nome_da_campanha |-> camp.name.s,
     cpc              |-> <<"0", ".", "0", "0">>,
     impressions      |-> 0,
     clicks           |-> 0,
     ctr              |-> <<"0", ".", "0", "0", "%">>]

\* lines 136-180 for a campaign whose merge does not raise
build_report(camp, insight) ==
    IF insight.exc \/ ~has_data(insight.body) THEN default_report(camp)
    ELSE LET item        == insight.body.data.items[1]
             impressions == parsed_impressions(item)
             clicks      == parsed_clicks(item)
             cpc         == parsed_cpc(item)
         IN  [default_report(camp) EXCEPT
                 !.impressions = float_to_int(impressions),
                 !.clicks      = float_to_int(clicks),
                 !.ctr         = format_percentage(ctr_value(impressions, clicks)),
                 !.cpc         = format_currency(cpc)]

(***************************************************************************)
(* The inputs: inbound payloads and the platform's answers.                *)
(***************************************************************************)
Requests == {"r1"}

Token == <<"E", "A", "A", "B", "w", "z", "L", "i", "x", "n", "j", "Y">>

AccountVals == {Absent, Null, Str(<<>>), Str(<<"7", "7">>), Num(Fin(0, 1)), Num(Fin(77, 1))}

TokenVals == {Absent, Str(<<>>), Str(Token), Num(Fin(0, 1)), Num(Fin(5, 1))}

Payloads == [account_id : AccountVals, access_token : TokenVals]

CampA == [id |-> Str(<<"1">>), name |-> Str(<<"A">>)]
CampB == [id |-> Str(<<"2">>), name |-> Absent]
CampNoId == [id |-> Absent, name |-> Str(<<"C">>)]

Camps == {CampA, CampB, CampNoId}

CampIds == {<<"1">>, <<"2">>}

RECURSIVE SeqsUpTo(_, _)
SeqsUpTo(S, n) ==
    IF n = 0 THEN {<<>>}
    ELSE SeqsUpTo(S, n - 1) \cup {Append(q, e) : q \in {p \in SeqsUpTo(S, n - 1) : Len(p) = n - 1}, e \in S}

\* what the platform does with one outbound call
Outcome(kind, status, text_ok, text, json_ok, body, camps) ==
    [kind |-> kind, status |-> status, text_ok |-> text_ok, text |-> text,
     json_ok |-> json_ok, body |-> body, camps |-> camps]

TransportError == Outcome("transport", 0, FALSE, <<>>, FALSE, EmptyBody, <<>>)
TimedOut == Outcome("timeout", 0, FALSE, <<>>, FALSE, EmptyBody, <<>>)
HttpError(status, text_ok, text) == Outcome("http", status, text_ok, text, FALSE, EmptyBody, <<>>)
Undecodable == Outcome("http", 200, TRUE, <<"<">>, FALSE, EmptyBody, <<>>)
ListOf(camps) == Outcome("http", 200, TRUE, <<>>, TRUE, EmptyBody, camps)
Insight(body) == Outcome("http", 200, TRUE, <<>>, TRUE, body, <<>>)

ListFailures ==
    {TransportError, TimedOut, Undecodable,
     HttpError(400, TRUE, <<"b", "a", "d">>), HttpError(500, FALSE, <<"x">>)}

Item(impressions, clicks, cpc) ==
    [isobj |-> TRUE, impressions |-> impressions, clicks |-> clicks, cpc |-> cpc]

\* a first element of data that is no object (a number, a string, null)
NonObjectItem == [isobj |-> FALSE, impressions |-> Absent, clicks |-> Absent, cpc |-> Absent]

DataList(items) == [t |-> "list", n |-> Len(items), items |-> items]

Obj(data) == [t |-> "obj", s |-> <<>>, data |-> data]

Metrics(impressions, clicks, cpc) == Insight(Obj(DataList(<<Item(impressions, clicks, cpc)>>)))

\* detail answers that fail in the fetch itself
DetailFailures == {TransportError, TimedOut, HttpError(500, TRUE, <<"e">>)}

\* detail answers whose body is not the expected object
MalformedBodies ==
    {Undecodable,
     Insight([t |-> "null", s |-> <<>>, data |-> EmptyData]),
     Insight([t |-> "str", s |-> <<"n", "o", "d", "a", "t", "a">>, data |-> EmptyData]),
     Insight([t |-> "str", s |-> <<"o", "k">>, data |-> EmptyData]),
     Insight([t |-> "list", s |-> <<>>, data |-> EmptyData]),
     Insight(Obj([t |-> "num", n |-> 5, items |-> <<>>])),
     Insight(Obj([t |-> "obj", n |-> 1, items |-> <<>>])),
     Insight(Obj(DataList(<<NonObjectItem>>)))}

\* detail answers with no data entry
NoDataBodies == {Insight(Obj(EmptyData)), Insight(Obj(DataList(<<>>)))}

\* detail answers with metrics
MetricBodies ==
    {Metrics(Str(<<"2", "0", "0">>), Str(<<"1", "0">>), Str(<<"1", ".", "5">>)),
     Metrics(Str(<<"1", "0", "0">>), Str(<<"5">>), Str(<<"2", ".", "0", "0">>)),
     Metrics(Num(Fin(800, 1)), Num(Fin(1, 1)), Absent),
     Metrics(Str(<<"a", "b", "c">>), Str(<<"7">>), Null)}

DetailAnswers == DetailFailures \cup MalformedBodies \cup NoDataBodies \cup MetricBodies

Upstream(list, detail) == [list |-> list, detail |-> detail]

\* every list answer up to MaxCamps entries with every detail answer per id
GeneralUpstreams ==
    {Upstream(l, d) : l \in ListFailures \cup {ListOf(c) : c \in SeqsUpTo(Camps, MaxCamps)},
                      d \in [CampIds -> DetailAnswers]}

RichImpressions ==
    {Absent, Null, Str(<<"a", "b", "c">>), Str(<<"0">>), Str(<<"2", "0", "0">>), Str(<<"0", ".", "5">>), Str(<<"-", "5">>),
     Str(<<"n", "a", "n">>), Str(<<"i", "n", "f">>), Num(Fin(800, 1))}

RichClicks ==
    {Absent, Null, Str(<<"x">>), Str(<<"1">>), Str(<<"3">>), Str(<<"1", "0">>),
     Str(<<"-", "2">>), Str(<<"n", "a", "n">>)}

RichCpc ==
    {Absent, Null, Str(<<"a", "b", "c">>), Str(<<"1", ".", "5">>), Str(<<"-", "1", ".", "5">>), Str(<<"n", "a", "n">>), Num(Fin(2, 1))}

\* one campaign whose metric fields range over the values of every kind
RichUpstreams ==
    {Upstream(ListOf(<<CampA>>), [c \in CampIds |-> Metrics(i, k, p)]) :
        i \in RichImpressions, k \in RichClicks, p \in RichCpc}

Upstreams == GeneralUpstreams \cup RichUpstreams

NoUpstream == Upstream(TimedOut, [c \in CampIds |-> TimedOut])

(***************************************************************************)
(* The state of the service.                                               *)
(***************************************************************************)
VARIABLES
    payload,         \* the inbound JSON body of each request
    upstream,        \* what the platform answers to the calls of each request
    pc,              \* where the handler of each request stands
    session,         \* the aiohttp.ClientSession of each request
    campaigns_list,  \* campaigns_data.get("data", [])
    tasks,           \* the detail fetches handed to asyncio.gather
    order,           \* the positions of the detail fetches, in completion order
    outbound,        \* the outbound calls issued so far
    log,             \* what the logging calls wrote of the access token
    response         \* the response of each request

vars == <<payload, upstream, pc, session, campaigns_list, tasks, order, outbound, log, response>>

NoResponse ==
    [status |-> 0, detail |-> <<>>, paused_campaigns_total |-> 0, paused_campaigns |-> <<>>]

\* raise HTTPException(status_code, detail)
HTTPException(status_code, detail) == [NoResponse EXCEPT !.status = status_code, !.detail = detail]

\* the detail text of line 199
MissingFieldsDetail == <<"a", "c", "c", "o", "u", "n", "t", "_", "i", "d", "/", "t", "o", "k", "e", "n">>

\* what the server answers when an exception leaves the handler
InternalServerError == HTTPException(500, <<"I", "S", "E">>)

\* session.get(url, params) on the session `via`
Call(kind, target, token, via) == [kind |-> kind, target |-> target, token |-> token, via |-> via]

\* line 82: every run of fetch_paused_campaigns creates the session it uses
own_session(r) == r

\* the number of characters line 201 keeps of the token
PreviewLen == 10

\* access_token[:10]
token_preview(s) == SubSeq(s, 1, IF Len(s) < PreviewLen THEN Len(s) ELSE PreviewLen)

\* a logging call whose message holds `text` of the access token
LogEntry(line, text) == [line |-> line, text |-> text]

\* line 192: json.dumps(payload) holds the access_token member as sent
payload_dump(p) ==
    IF p.access_token.t \in {"str", "num"}
    THEN <<LogEntry(192, PyStr(p.access_token))>>
    ELSE <<>>

\* lines 201, 80 and 96: the preview, then the token itself, then the list params
accepted_log(p) ==
    <<LogEntry(201, token_preview(p.access_token.s)),
      LogEntry(80, p.access_token.s),
      LogEntry(96, p.access_token.s)>>

Init ==
    /\ payload \in [Requests -> Payloads]
    /\ upstream = [r \in Requests |-> NoUpstream]
    /\ pc = [r \in Requests |-> "received"]
    /\ session = [r \in Requests |-> "none"]
    /\ campaigns_list = [r \in Requests |-> <<>>]
    /\ tasks = [r \in Requests |-> <<>>]
    /\ order = [r \in Requests |-> <<>>]
    /\ outbound = [r \in Requests |-> <<>>]
    /\ log = [r \in Requests |-> <<>>]
    /\ response = [r \in Requests |-> NoResponse]

\* line 197
payload_invalid(p) == ~Truthy(p.account_id) \/ ~Truthy(p.access_token)

\* line 201, access_token[:10]: only a string can be sliced
preview_raises(p) == p.access_token.t # "str"

\* lines 194-199: a missing or falsy field ends the request with 400
RejectInvalid(r) ==
    /\ pc[r] = "received"
    /\ payload_invalid(payload[r])
    /\ log' = [log EXCEPT ![r] = @ \o payload_dump(payload[r])]
    /\ response' = [response EXCEPT ![r] = HTTPException(400, MissingFieldsDetail)]
    /\ pc' = [pc EXCEPT ![r] = "done"]
    /\ UNCHANGED <<payload, upstream, session, campaigns_list, tasks, order, outbound>>

\* line 201 raises outside the try of line 203
PreviewRaises(r) ==
    /\ pc[r] = "received"
    /\ ~payload_invalid(payload[r])
    /\ preview_raises(payload[r])
    /\ log' = [log EXCEPT ![r] = @ \o payload_dump(payload[r])]
    /\ response' = [response EXCEPT ![r] = InternalServerError]
    /\ pc' = [pc EXCEPT ![r] = "done"]
    /\ UNCHANGED <<payload, upstream, session, campaigns_list, tasks, order, outbound>>

\* the platform's answers to a request: the ones fixed for it from the start,
\* or else any, drawn when its first call reaches the platform
platform_answers(u) == IF u = NoUpstream THEN Upstreams ELSE {u}

\* lines 194-98: the payload passes, the session opens, the list call goes out
SendList(r) ==
    /\ pc[r] = "received"
    /\ ~payload_invalid(payload[r])
    /\ ~preview_raises(payload[r])
    /\ \E u \in platform_answers(upstream[r]) : upstream' = [upstream EXCEPT ![r] = u]
    /\ session' = [session EXCEPT ![r] = "open"]
    /\ outbound' = [outbound EXCEPT ![r] =
           Append(@, Call("list", PyStr(payload[r].account_id), payload[r].access_token.s,
                          own_session(r)))]
    /\ log' = [log EXCEPT ![r] = @ \o payload_dump(payload[r]) \o accepted_log(payload[r])]
    /\ pc' = [pc EXCEPT ![r] = "listing"]
    /\ UNCHANGED <<payload, campaigns_list, tasks, order, response>>

\* an error path that answers without leaving the session context
FailWithLeak(r, e) ==
    /\ session' = session
    /\ response' = [response EXCEPT ![r] = HTTPException(500, e.msg)]
    /\ pc' = [pc EXCEPT ![r] = "done"]

\* lines 213-215 after the session context has exited
FailWith(r, e) ==
    /\ session' = [session EXCEPT ![r] = "closed"]
    /\ response' = [response EXCEPT ![r] = HTTPException(500, e.msg)]
    /\ pc' = [pc EXCEPT ![r] = "done"]

\* lines 98-119: the list call fails
ListFails(r) ==
    /\ pc[r] = "listing"
    /\ fetch_exception(upstream[r].list) # NoExc
    /\ FailWith(r, fetch_exception(upstream[r].list))
    /\ UNCHANGED <<payload, upstream, campaigns_list, tasks, order, outbound, log>>

\* camp["id"] of line 128 for every entry
all_have_id(camps) == \A i \in 1..Len(camps) : camps[i].id.t # "absent"

\* scheduling that starts each detail call as soon as it is built: the entries
\* before the id-less one have their calls sent before the KeyError
ListMissingIdEager(r) ==
    /\ pc[r] = "listing"
    /\ fetch_exception(upstream[r].list) = NoExc
    /\ ~all_have_id(upstream[r].list.camps)
    /\ campaigns_list' = [campaigns_list EXCEPT ![r] = upstream[r].list.camps]
    /\ LET camps == upstream[r].list.camps
           first == CHOOSE i \in 1..Len(camps) :
                        /\ camps[i].id.t = "absent"
                        /\ \A j \in 1..(i - 1) : camps[j].id.t # "absent"
       IN  outbound' = [outbound EXCEPT ![r] =
               @ \o [j \in 1..(first - 1) |->
                        Call("detail", camps[j].id.s, payload[r].access_token.s, own_session(r))]]
    /\ FailWith(r, Exc("KeyError", <<"'", "i", "d", "'">>))
    /\ UNCHANGED <<payload, upstream, tasks, order, log>>

\* lines 121-128: an entry without id raises KeyError while the calls are built
ListMissingId(r) ==
    /\ pc[r] = "listing"
    /\ fetch_exception(upstream[r].list) = NoExc
    /\ ~all_have_id(upstream[r].list.camps)
    /\ campaigns_list' = [campaigns_list EXCEPT ![r] = upstream[r].list.camps]
    /\ FailWith(r, Exc("KeyError", <<"'", "i", "d", "'">>))
    /\ UNCHANGED <<payload, upstream, tasks, order, outbound, log>>

\* lines 126-128
scheduled_tasks(camps) ==
    [i \in 1..Len(camps) |-> [campaign_id |-> camps[i].id.s, st |-> "created", result |-> Pending]]

\* lines 121-131: one detail fetch per entry is handed to gather
ScheduleDetails(r) ==
    /\ pc[r] = "listing"
    /\ fetch_exception(upstream[r].list) = NoExc
    /\ all_have_id(upstream[r].list.camps)
    /\ campaigns_list' = [campaigns_list EXCEPT ![r] = upstream[r].list.camps]
    /\ tasks' = [tasks EXCEPT ![r] = scheduled_tasks(upstream[r].list.camps)]
    /\ pc' = [pc EXCEPT ![r] = "gathering"]
    /\ UNCHANGED <<payload, upstream, session, order, outbound, log, response>>

\* line 50: a detail fetch starts and issues its call
StartDetail(r, i) ==
    /\ pc[r] = "gathering"
    /\ tasks[r][i].st = "created"
    /\ tasks' = [tasks EXCEPT ![r][i].st = "inflight"]
    /\ outbound' = [outbound EXCEPT ![r] =
           Append(@, Call("detail", tasks[r][i].campaign_id, payload[r].access_token.s,
                          own_session(r)))]
    /\ log' = [log EXCEPT ![r] = Append(@, LogEntry(47, payload[r].access_token.s))]
    /\ UNCHANGED <<payload, upstream, pc, session, campaigns_list, order, response>>

\* a detail fetch that is started again when it raised
DetailCompletesRetrying(r, i) ==
    /\ pc[r] = "gathering"
    /\ tasks[r][i].st = "inflight"
    /\ LET res == fetch_campaign_insights(upstream[r].detail[tasks[r][i].campaign_id])
       IN  IF res.exc
           THEN /\ tasks' = [tasks EXCEPT ![r][i].st = "created"]
                /\ order' = order
           ELSE /\ tasks' = [tasks EXCEPT ![r][i].st = "done", ![r][i].result = res]
                /\ order' = [order EXCEPT ![r] = Append(@, i)]
    /\ UNCHANGED <<payload, upstream, pc, session, campaigns_list, outbound, log, response>>

\* a session without ClientTimeout: a call the platform never answers never ends
DetailCompletesUnlessSilent(r, i) ==
    /\ pc[r] = "gathering"
    /\ tasks[r][i].st = "inflight"
    /\ upstream[r].detail[tasks[r][i].campaign_id].kind # "timeout"
    /\ tasks' = [tasks EXCEPT ![r][i].st = "done",
                              ![r][i].result = fetch_campaign_insights(upstream[r].detail[tasks[r][i].campaign_id])]
    /\ order' = [order EXCEPT ![r] = Append(@, i)]
    /\ UNCHANGED <<payload, upstream, pc, session, campaigns_list, outbound, log, response>>

\* lines 50-74: a detail fetch returns or raises
DetailCompletes(r, i) ==
    /\ pc[r] = "gathering"
    /\ tasks[r][i].st = "inflight"
    /\ tasks' = [tasks EXCEPT ![r][i].st = "done",
                              ![r][i].result = fetch_campaign_insights(
                                                   upstream[r].detail[tasks[r][i].campaign_id])]
    /\ order' = [order EXCEPT ![r] = Append(@, i)]
    /\ UNCHANGED <<payload, upstream, pc, session, campaigns_list, outbound, log, response>>

\* a gather that resumes at the first fetch that raised
gather_first_exception(r) ==
    \/ \A i \in 1..Len(tasks[r]) : tasks[r][i].st = "done"
    \/ \E i \in 1..Len(tasks[r]) : tasks[r][i].st = "done" /\ tasks[r][i].result.exc

\* line 131: gather(return_exceptions=True) resumes when every fetch has ended
gather_done(r) == \A i \in 1..Len(tasks[r]) : tasks[r][i].st = "done"

\* a merge that takes the results in the order the fetches completed
insights_results_by_arrival(r) == [i \in 1..Len(tasks[r]) |-> tasks[r][order[r][i]].result]

\* a result list kept in one place for all requests: a request reads the list
\* of another one that gathered as many results
insights_results_shared(r) ==
    LET others == {q \in DOMAIN tasks : /\ q # r
                                        /\ Len(tasks[q]) = Len(tasks[r])
                                        /\ \A i \in 1..Len(tasks[q]) : tasks[q][i].st = "done"}
        from == IF others = {} THEN r ELSE CHOOSE q \in others : TRUE
    IN  [i \in 1..Len(tasks[r]) |-> tasks[from][i].result]

\* line 131: the results, at the positions of the awaitables
insights_results(r) == [i \in 1..Len(tasks[r]) |-> tasks[r][i].result]

\* a merge without the isinstance test of line 145: a fetch's exception is raised again
merge_failure_propagating(camps, results) ==
    FirstExc([i \in 1..Len(camps) |->
                 IF results[i].exc THEN results[i].e ELSE merge_exception(results[i])])

\* lines 134-180: the exception of the first campaign whose merge raises
merge_failure(camps, results) ==
    FirstExc([i \in 1..Len(camps) |-> merge_exception(results[i])])

\* lines 134-183
paused_campaigns(camps, results) ==
    [i \in 1..Len(camps) |-> build_report(camps[i], results[i])]

\* lines 205-212
result_of(reports) ==
    [NoResponse EXCEPT !.status = 200,
                       !.paused_campaigns_total = Len(reports),
                       !.paused_campaigns = reports]

\* lines 131-183 and 205-212: the merge completes and the handler answers 200
MergeReturns(r) ==
    /\ pc[r] = "gathering"
    /\ gather_done(r)
    /\ merge_failure(campaigns_list[r], insights_results(r)) = NoExc
    /\ session' = [session EXCEPT ![r] = "closed"]
    /\ response' = [response EXCEPT ![r] =
           result_of(paused_campaigns(campaigns_list[r], insights_results(r)))]
    /\ pc' = [pc EXCEPT ![r] = "done"]
    /\ UNCHANGED <<payload, upstream, campaigns_list, tasks, order, outbound, log>>

\* lines 131-180 and 213-215: the merge raises and the handler answers 500
MergeRaises(r) ==
    /\ pc[r] = "gathering"
    /\ gather_done(r)
    /\ merge_failure(campaigns_list[r], insights_results(r)) # NoExc
    /\ FailWith(r, merge_failure(campaigns_list[r], insights_results(r)))
    /\ UNCHANGED <<payload, upstream, campaigns_list, tasks, order, outbound, log>>

Next ==
    \E r \in DOMAIN pc :
        \/ RejectInvalid(r)
        \/ PreviewRaises(r)
        \/ SendList(r)
        \/ ListFails(r)
        \/ ListMissingId(r)
        \/ ScheduleDetails(r)
        \/ \E i \in 1..Len(tasks[r]) : StartDetail(r, i)
        \/ \E i \in 1..Len(tasks[r]) : DetailCompletes(r, i)
        \/ MergeReturns(r)
        \/ MergeRaises(r)

Spec == Init /\ [][Next]_vars

(***************************************************************************)
(* Two requests served concurrently by the one event loop: the handler is  *)
(* a coroutine, so the steps of two requests interleave at every await.    *)
(* The answers of the platform to each request are fixed from the start.   *)
(***************************************************************************)
Requests2 == {"r1", "r2"}

Payloads2 ==
    {[account_id |-> Str(<<"7", "7">>), access_token |-> Str(Token)],
     [account_id |-> Absent, access_token |-> Str(Token)],
     [account_id |-> Str(<<"7", "7">>), access_token |-> Num(Fin(5, 1))]}

Upstreams2 ==
    {Upstream(HttpError(400, TRUE, <<"b", "a", "d">>), [c \in CampIds |-> TimedOut]),
     Upstream(ListOf(<<CampA, CampNoId>>), [c \in CampIds |-> TimedOut]),
     Upstream(ListOf(<<CampA, CampB>>),
              [c \in CampIds |-> IF c = <<"1">>
                                 THEN Metrics(Str(<<"2", "0", "0">>), Str(<<"1", "0">>), Str(<<"1", ".", "5">>))
                                 ELSE TimedOut]),
     Upstream(ListOf(<<CampB, CampA>>),
              [c \in CampIds |-> IF c = <<"1">>
                                 THEN Metrics(Str(<<"1", "0", "0">>), Str(<<"5">>), Str(<<"2", ".", "0", "0">>))
                                 ELSE Insight(Obj(DataList(<<>>)))]),
     Upstream(ListOf(<<CampA>>),
              [c \in CampIds |-> Insight([t |-> "null", s |-> <<>>, data |-> EmptyData])])}

Init2 ==
    /\ payload \in [Requests2 -> Payloads2]
    /\ upstream \in [Requests2 -> Upstreams2]
    /\ pc = [r \in Requests2 |-> "received"]
    /\ session = [r \in Requests2 |-> "none"]
    /\ campaigns_list = [r \in Requests2 |-> <<>>]
    /\ tasks = [r \in Requests2 |-> <<>>]
    /\ order = [r \in Requests2 |-> <<>>]
    /\ outbound = [r \in Requests2 |-> <<>>]
    /\ log = [r \in Requests2 |-> <<>>]
    /\ response = [r \in Requests2 |-> NoResponse]

Spec2 == Init2 /\ [][Next]_vars

\* the event loop runs a coroutine whenever one is ready, and ClientTimeout(total=3)
\* of line 81 ends every call the platform leaves unanswered
UpstreamsFair ==
    {Upstream(HttpError(400, TRUE, <<"b", "a", "d">>), [c \in CampIds |-> TimedOut]),
     Upstream(ListOf(<<CampA, CampNoId>>), [c \in CampIds |-> TimedOut]),
     Upstream(ListOf(<<CampA, CampB>>),
              [c \in CampIds |-> IF c = <<"1">>
                                 THEN Metrics(Num(Fin(800, 1)), Num(Fin(1, 1)), Absent)
                                 ELSE TimedOut]),
     Upstream(ListOf(<<CampB>>),
              [c \in CampIds |-> Insight([t |-> "null", s |-> <<>>, data |-> EmptyData])])}

FairInit ==
    /\ payload \in [Requests2 -> Payloads2]
    /\ upstream \in [Requests2 -> UpstreamsFair]
    /\ pc = [r \in Requests2 |-> "received"]
    /\ session = [r \in Requests2 |-> "none"]
    /\ campaigns_list = [r \in Requests2 |-> <<>>]
    /\ tasks = [r \in Requests2 |-> <<>>]
    /\ order = [r \in Requests2 |-> <<>>]
    /\ outbound = [r \in Requests2 |-> <<>>]
    /\ log = [r \in Requests2 |-> <<>>]
    /\ response = [r \in Requests2 |-> NoResponse]

FairSpec == FairInit /\ [][Next]_vars /\ WF_vars(Next)

(***************************************************************************)
(* Properties.                                                             *)
(***************************************************************************)
\* the payload holds both fields as non-empty strings
WellFormedPayload(r) ==
    /\ payload[r].account_id.t = "str" /\ payload[r].account_id.s # <<>>
    /\ payload[r].access_token.t = "str" /\ payload[r].access_token.s # <<>>

\* the platform's answer to the detail call for the campaign at position i
AnswerAt(r, i) == upstream[r].detail[upstream[r].list.camps[i].id.s]

\* the report with every metric at its default, written out
ZeroReport(id, name) ==
    [id |-> id, nome_da_campanha |-> name, cpc |-> <<"0", ".", "0", "0">>,
     impressions |-> 0, clicks |-> 0, ctr |-> <<"0", ".", "0", "0", "%">>]

\* C1: in every 200 response, whatever order the detail fetches completed in,
\* the report at position i carries the id and name of the list entry at
\* position i and the metrics of the platform's answer for that entry's id.
C1_PositionalMerge ==
    \A r \in Requests :
        response[r].status = 200 =>
            LET camps   == upstream[r].list.camps
                reports == response[r].paused_campaigns
            IN  /\ Len(reports) = Len(camps)
                /\ \A i \in 1..Len(camps) :
                       /\ reports[i].id = camps[i].id.s
                       /\ reports[i].nome_da_campanha = camps[i].name.s
                       /\ reports[i] = build_report(camps[i],
                                                    fetch_campaign_insights(AnswerAt(r, i)))

\* two campaigns with different metrics, the second fetch completing first
C1_Witness ==
    \E r \in Requests :
        /\ response[r].status = 200
        /\ order[r] = <<2, 1>>
        /\ response[r].paused_campaigns[1].id = <<"1">>
        /\ response[r].paused_campaigns[1].impressions = 200
        /\ response[r].paused_campaigns[2].id = <<"2">>
        /\ response[r].paused_campaigns[2].impressions = 100

\* detail answers that succeed with a body of the expected shape
CleanAnswers == NoDataBodies \cup MetricBodies

\* the metrics the model's well-formed answers stand for, written out
RealMetrics(answer) ==
    CASE answer = Metrics(Str(<<"2", "0", "0">>), Str(<<"1", "0">>), Str(<<"1", ".", "5">>)) ->
             [impressions |-> 200, clicks |-> 10,
              ctr |-> <<"5", ".", "0", "0", "%">>, cpc |-> <<"1", ".", "5", "0">>]
      [] answer = Metrics(Str(<<"1", "0", "0">>), Str(<<"5">>), Str(<<"2", ".", "0", "0">>)) ->
             [impressions |-> 100, clicks |-> 5,
              ctr |-> <<"5", ".", "0", "0", "%">>, cpc |-> <<"2", ".", "0", "0">>]
      [] answer = Metrics(Num(Fin(800, 1)), Num(Fin(1, 1)), Absent) ->
             [impressions |-> 800, clicks |-> 1,
              ctr |-> <<"0", ".", "1", "2", "%">>, cpc |-> <<"0", ".", "0", "0">>]
      [] answer = Metrics(Str(<<"a", "b", "c">>), Str(<<"7">>), Null) ->
             [impressions |-> 0, clicks |-> 7,
              ctr |-> <<"0", ".", "0", "0", "%">>, cpc |-> <<"0", ".", "0", "0">>]
      [] OTHER ->
             [impressions |-> 0, clicks |-> 0,
              ctr |-> <<"0", ".", "0", "0", "%">>, cpc |-> <<"0", ".", "0", "0">>]

MetricsOf(report) ==
    [impressions |-> report.impressions, clicks |-> report.clicks,
     ctr |-> report.ctr, cpc |-> report.cpc]

\* C2: when at least one detail fetch ends with a non-200 status, a transport
\* error or a timeout, and every other fetch either fails that way or succeeds
\* with a well-formed body, the request answers 200, each failed campaign has
\* the zero-default report with its id and name, and each sibling whose fetch
\* succeeded has its own real metrics.
C2_DetailFailureIsolated ==
    \A r \in Requests :
        LET camps   == upstream[r].list.camps
            reports == response[r].paused_campaigns
        IN  ( /\ pc[r] = "done"
              /\ tasks[r] # <<>>
              /\ \A i \in 1..Len(camps) : AnswerAt(r, i) \in DetailFailures \cup CleanAnswers
              /\ \E i \in 1..Len(camps) : AnswerAt(r, i) \in DetailFailures )
            => /\ response[r].status = 200
               /\ Len(reports) = Len(camps)
               /\ \A i \in 1..Len(camps) :
                      IF AnswerAt(r, i) \in DetailFailures
                      THEN reports[i] = ZeroReport(camps[i].id.s, camps[i].name.s)
                      ELSE /\ reports[i].id = camps[i].id.s
                           /\ reports[i].nome_da_campanha = camps[i].name.s
                           /\ MetricsOf(reports[i]) = RealMetrics(AnswerAt(r, i))

\* campaign "1" answers impressions 100, clicks 5, cpc 2.00 and campaign "2"
\* times out: the first report is real, the second the zero default
C2_Witness ==
    \E r \in Requests :
        /\ pc[r] = "done"
        /\ Len(tasks[r]) = 2
        /\ upstream[r].detail[<<"2">>] = TimedOut
        /\ tasks[r][2].campaign_id = <<"2">>
        /\ response[r].status = 200
        /\ response[r].paused_campaigns[1].ctr = <<"5", ".", "0", "0", "%">>
        /\ response[r].paused_campaigns[1].cpc = <<"2", ".", "0", "0">>
        /\ response[r].paused_campaigns[2] = ZeroReport(<<"2">>, <<>>)

\* C3: a detail response whose body is malformed (undecodable, or decodable
\* but not an object holding a data array whose first element is an object)
\* fails that campaign only: the request answers 200 and the campaign has the
\* zero-default report.
C3_MalformedBodyIsolated ==
    \A r \in Requests :
        LET camps   == upstream[r].list.camps
            reports == response[r].paused_campaigns
        IN  ( /\ WellFormedPayload(r)
              /\ pc[r] = "done"
              /\ tasks[r] # <<>>
              /\ \A i \in 1..Len(camps) : AnswerAt(r, i) \in DetailAnswers
              /\ \E i \in 1..Len(camps) : AnswerAt(r, i) \in MalformedBodies )
            => /\ response[r].status = 200
               /\ \A i \in 1..Len(camps) :
                      AnswerAt(r, i) \in MalformedBodies
                          => reports[i] = ZeroReport(camps[i].id.s, camps[i].name.s)

\* the list call of the request went out and was answered with a decodable 200
ListSucceeded(r) ==
    /\ outbound[r] # <<>>
    /\ pc[r] # "listing"
    /\ upstream[r].list.kind = "http"
    /\ upstream[r].list.status = 200
    /\ upstream[r].list.json_ok

\* C4: a request whose list fetch succeeded with N campaigns answers with
\* exactly N reports, paused_campaigns_total = N, one report per campaign in
\* list order, whatever the detail fetches did.
C4_NoCampaignDropped ==
    \A r \in Requests :
        LET camps   == upstream[r].list.camps
            reports == response[r].paused_campaigns
        IN  (WellFormedPayload(r) /\ pc[r] = "done" /\ ListSucceeded(r) /\ all_have_id(camps))
            => /\ response[r].status = 200
               /\ response[r].paused_campaigns_total = Len(camps)
               /\ Len(reports) = Len(camps)
               /\ \A i \in 1..Len(camps) : reports[i].id = camps[i].id.s

\* the member is missing, empty or not a string
NotNonEmptyString(v) == v.t # "str" \/ v.s = <<>>

\* C5: a payload whose account_id or access_token is missing, empty or not a
\* string is answered with 400 and no outbound call is ever made for it.
C5_InvalidPayloadRejected ==
    \A r \in Requests :
        (NotNonEmptyString(payload[r].account_id) \/ NotNonEmptyString(payload[r].access_token))
            => /\ outbound[r] = <<>>
               /\ pc[r] = "done" => response[r].status = 400

\* the list call of the request went out and the platform fails it
ListFailed(r) ==
    /\ outbound[r] # <<>>
    /\ \/ upstream[r].list.kind \in {"transport", "timeout"}
       \/ upstream[r].list.kind = "http"
              /\ (upstream[r].list.status # 200 \/ ~upstream[r].list.json_ok)

\* C6: when the list fetch fails, no detail fetch is ever scheduled or sent,
\* and the request ends with 500, no campaign list, and as detail the text of
\* the failure: "Erro <status>: <body>" for a non-200 status.
C6_ListFailureIsFatal ==
    \A r \in Requests :
        ListFailed(r) =>
            /\ tasks[r] = <<>>
            /\ \A k \in 1..Len(outbound[r]) : outbound[r][k].kind = "list"
            /\ pc[r] \in {"listing", "done"}
            /\ pc[r] = "done" =>
                   /\ response[r].status = 500
                   /\ response[r].paused_campaigns = <<>>
                   /\ response[r].paused_campaigns_total = 0
                   /\ LET l == upstream[r].list
                      IN  CASE l.kind = "timeout" -> response[r].detail = <<>>
                            [] l.kind = "transport" -> response[r].detail = TransportText
                            [] l.kind = "http" /\ l.status # 200 ->
                                   response[r].detail =
                                       <<"E", "r", "r", "o", " ">> \o NatStr(l.status) \o <<":", " ">>
                                           \o (IF l.text_ok THEN l.text ELSE <<>>)
                            [] OTHER -> response[r].detail = DecodeText

\* the list call answered 400 with body "bad"
C6_Witness ==
    \E r \in Requests :
        /\ pc[r] = "done"
        /\ upstream[r].list = HttpError(400, TRUE, <<"b", "a", "d">>)
        /\ Len(outbound[r]) = 1
        /\ response[r].status = 500
        /\ response[r].detail = <<"E", "r", "r", "o", " ", "4", "0", "0", ":", " ", "b", "a", "d">>

\* no response and no closed session while a scheduled fetch has not ended
AllFetchesEnded(r) == \A i \in 1..Len(tasks[r]) : tasks[r][i].st = "done"

\* a fetch that has not ended stays scheduled, moves only forward, keeps its
\* session open and its request unanswered
SiblingsUntouched(r) ==
    \A i \in 1..Len(tasks[r]) :
        tasks[r][i].st # "done" =>
            /\ Len(tasks'[r]) = Len(tasks[r])
            /\ tasks'[r][i].st \in {tasks[r][i].st, "inflight", "done"}
            /\ tasks[r][i].st = "inflight" => tasks'[r][i].st # "created"
            /\ session'[r] = "open"
            /\ response'[r] = NoResponse

\* C7: the join is wait-all: a response exists only when every scheduled
\* detail fetch has ended, and no step (in particular none that follows the
\* failure of a fetch) cancels or skips a fetch that has not ended.
C7_WaitAll ==
    /\ [](\A r \in Requests :
              (response[r] # NoResponse \/ session[r] = "closed") => AllFetchesEnded(r))
    /\ [][\A r \in Requests : SiblingsUntouched(r)]_vars

\* the first fetch to end failed, its sibling ended after it with real metrics
C7_Witness ==
    \E r \in Requests :
        /\ response[r].status = 200
        /\ Len(order[r]) = 2
        /\ tasks[r][order[r][1]].result.exc
        /\ ~tasks[r][order[r][2]].result.exc
        /\ response[r].paused_campaigns[order[r][2]].impressions = 200
        /\ response[r].paused_campaigns[order[r][1]].impressions = 0

\* C8: in every report of a 200 response, ctr is the two-decimal rendering of
\* clicks/impressions*100 of the impressions and clicks shown in the report
\* when impressions > 0, and "0.00%" when the shown impressions is 0.
C8_CtrMatchesShownCounts ==
    \A r \in Requests :
        (WellFormedPayload(r) /\ response[r].status = 200) =>
            \A i \in 1..Len(response[r].paused_campaigns) :
                LET rep == response[r].paused_campaigns[i]
                IN  /\ rep.impressions > 0 =>
                           rep.ctr = format_percentage(Fin(rep.clicks * 100, rep.impressions))
                    /\ rep.impressions = 0 => rep.ctr = <<"0", ".", "0", "0", "%">>

\* the answer is a 200 whose data array starts with an object of metric fields
IsMetricsAnswer(a) ==
    /\ a.kind = "http" /\ a.status = 200 /\ a.json_ok
    /\ a.body.t = "obj" /\ a.body.data.t = "list"
    /\ a.body.data.items # <<>>
    /\ a.body.data.items[1].isobj

\* the member is absent, or float() does not accept its value
NotANumber(v) ==
    \/ v.t \in {"absent", "null"}
    \/ v.t = "str" /\ str_to_float(v.s).k = "raise"

\* C9: when every detail fetch succeeds with a data entry, the request answers
\* 200 for every value of the metric fields, and a field that is absent or no
\* number is 0 in the report, each field on its own.
C9_FieldsParsedIndependently ==
    \A r \in Requests :
        LET camps   == upstream[r].list.camps
            reports == response[r].paused_campaigns
        IN  ( /\ WellFormedPayload(r)
              /\ pc[r] = "done"
              /\ tasks[r] # <<>>
              /\ \A i \in 1..Len(camps) : IsMetricsAnswer(AnswerAt(r, i)) )
            => /\ response[r].status = 200
               /\ \A i \in 1..Len(camps) :
                      LET item == AnswerAt(r, i).body.data.items[1]
                      IN  /\ NotANumber(item.impressions) => reports[i].impressions = 0
                          /\ NotANumber(item.clicks) => reports[i].clicks = 0
                          /\ NotANumber(item.cpc) => reports[i].cpc = <<"0", ".", "0", "0">>

\* C10: in every report of a 200 response impressions and clicks are >= 0 and
\* cpc renders no negative value, whatever the detail responses carried.
C10_MetricsNonNegative ==
    \A r \in Requests :
        (WellFormedPayload(r) /\ response[r].status = 200) =>
            \A i \in 1..Len(response[r].paused_campaigns) :
                LET rep == response[r].paused_campaigns[i]
                IN  /\ rep.impressions >= 0
                    /\ rep.clicks >= 0
                    /\ rep.cpc[1] # "-"

\* C11: when a detail fetch succeeds with an object that has no data key or
\* an empty data array (every other fetch failing in the fetch itself or
\* succeeding with a well-formed body), the request answers 200 and that
\* campaign has the zero-default report with its id and name.
C11_NoDataIsZeroDefault ==
    \A r \in Requests :
        LET camps   == upstream[r].list.camps
            reports == response[r].paused_campaigns
        IN  ( /\ pc[r] = "done"
              /\ tasks[r] # <<>>
              /\ \A i \in 1..Len(camps) : AnswerAt(r, i) \in DetailFailures \cup CleanAnswers
              /\ \E i \in 1..Len(camps) : AnswerAt(r, i) \in NoDataBodies )
            => /\ response[r].status = 200
               /\ Len(reports) = Len(camps)
               /\ \A i \in 1..Len(camps) :
                      AnswerAt(r, i) \in NoDataBodies
                          => reports[i] = ZeroReport(camps[i].id.s, camps[i].name.s)

\* campaign "1" answers {"data": []}, campaign "2" an object without data
C11_Witness ==
    \E r \in Requests :
        /\ pc[r] = "done"
        /\ Len(tasks[r]) = 2
        /\ upstream[r].detail[<<"1">>] = Insight(Obj(DataList(<<>>)))
        /\ upstream[r].detail[<<"2">>] = Insight(Obj(EmptyData))
        /\ tasks[r][1].campaign_id = <<"1">>
        /\ tasks[r][2].campaign_id = <<"2">>
        /\ response[r].status = 200
        /\ response[r].paused_campaigns =
               <<ZeroReport(<<"1">>, <<"A">>), ZeroReport(<<"2">>, <<>>)>>

\* the positions of the outbound calls of a kind (and, for details, of a target)
ListCalls(r) == {k \in 1..Len(outbound[r]) : outbound[r][k].kind = "list"}

DetailCalls(r) == {k \in 1..Len(outbound[r]) : outbound[r][k].kind = "detail"}

DetailCallsFor(r, id) == {k \in DetailCalls(r) : outbound[r][k].target = id}

\* C12: a request issues at most one list call, exactly one once it is
\* accepted, and it is its first call; a detail call exists only after the list
\* response was received and decoded; every list position has at most one
\* detail call, started positions exactly one (none is repeated after a
\* failure); and when the request has ended after a list of N campaigns, exactly
\* N detail calls were issued, one per list position, for that position's id.
C12_OneCallPerPositionNoRetry ==
    \A r \in Requests :
        LET camps == upstream[r].list.camps
        IN  /\ Cardinality(ListCalls(r)) <= 1
            /\ session[r] # "none" => ListCalls(r) = {1}
            /\ DetailCalls(r) # {} =>
                   /\ ListCalls(r) = {1}
                   /\ pc[r] \in {"gathering", "done"}
                   /\ ListSucceeded(r)
            /\ tasks[r] # <<>> =>
                   /\ Len(tasks[r]) = Len(camps)
                   /\ \A i \in 1..Len(camps) : tasks[r][i].campaign_id = camps[i].id.s
            /\ \A id \in CampIds :
                   Cardinality(DetailCallsFor(r, id)) =
                       Cardinality({i \in 1..Len(tasks[r]) :
                                       tasks[r][i].campaign_id = id /\ tasks[r][i].st # "created"})
            /\ (pc[r] = "done" /\ ListSucceeded(r) /\ all_have_id(camps)) =>
                   /\ Cardinality(DetailCalls(r)) = Len(camps)
                   /\ \A id \in CampIds :
                          Cardinality(DetailCallsFor(r, id)) =
                              Cardinality({i \in 1..Len(camps) : camps[i].id.s = id})

\* two campaigns, one of whose fetches failed: one list call, then two detail calls
C12_Witness ==
    \E r \in Requests :
        /\ pc[r] = "done"
        /\ response[r].status = 200
        /\ Len(tasks[r]) = 2
        /\ \E i \in 1..2 : tasks[r][i].result.exc
        /\ Len(outbound[r]) = 3
        /\ outbound[r][1].kind = "list"
        /\ {outbound[r][2].target, outbound[r][3].target} = {<<"1">>, <<"2">>}

\* C13: every call of a request goes through that request's own session and a
\* call is only ever issued on an open session (never after the close); the
\* session is closed only when no detail fetch is in flight and stays closed;
\* and whenever a response exists, on the 200 path, after a list failure and
\* after an error during the merge alike, the session it opened is closed.
C13_SessionScopedToRequest ==
    /\ [](\A r \in DOMAIN pc :
            /\ \A k \in 1..Len(outbound[r]) : outbound[r][k].via = r
            /\ session[r] = "none" => outbound[r] = <<>>
            /\ session[r] = "closed" => \A i \in 1..Len(tasks[r]) : tasks[r][i].st # "inflight"
            /\ response[r] # NoResponse => session[r] # "open"
            /\ (response[r] # NoResponse /\ outbound[r] # <<>>) => session[r] = "closed")
    /\ [][\A r \in DOMAIN pc :
            /\ outbound'[r] # outbound[r] => session'[r] = "open"
            /\ session[r] = "closed" => session'[r] = "closed"]_vars

\* one request still has a detail fetch in flight on its open session while the
\* other has ended with 500 during the merge and closed its own
C13_Witness ==
    /\ DOMAIN pc = Requests2
    /\ session["r1"] = "open"
    /\ \E i \in 1..Len(tasks["r1"]) : tasks["r1"][i].st = "inflight"
    /\ session["r2"] = "closed"
    /\ response["r2"].status = 500
    /\ tasks["r2"] # <<>>

\* lines 185-215 run for one request with nothing else in flight: the response
\* to payload p when the platform answers u
SoloResponse(p, u) ==
    LET camps == u.list.camps
        results == [i \in 1..Len(camps) |-> fetch_campaign_insights(u.detail[camps[i].id.s])]
    IN  IF payload_invalid(p) THEN HTTPException(400, MissingFieldsDetail)
        ELSE IF preview_raises(p) THEN InternalServerError
        ELSE IF fetch_exception(u.list) # NoExc THEN HTTPException(500, fetch_exception(u.list).msg)
        ELSE IF ~all_have_id(camps) THEN HTTPException(500, <<"'", "i", "d", "'">>)
        ELSE IF merge_failure(camps, results) # NoExc
             THEN HTTPException(500, merge_failure(camps, results).msg)
        ELSE result_of(paused_campaigns(camps, results))

\* the state one request works on
StateOf(r) ==
    <<payload[r], upstream[r], pc[r], session[r], campaigns_list[r], tasks[r], order[r],
      outbound[r], log[r], response[r]>>

\* C14: with two requests in flight, the response of each is the response the
\* same payload gets alone under the same answers of the platform, however the
\* steps of the two interleave; and no step of one request changes anything the
\* other works on.
C14_ConcurrentRequestsIndependent ==
    /\ [](\A r \in DOMAIN pc :
            pc[r] = "done" => response[r] = SoloResponse(payload[r], upstream[r]))
    /\ [][\A r, q \in DOMAIN pc :
            (r # q /\ StateOf(r)' # StateOf(r)) => StateOf(q)' = StateOf(q)]_vars

\* one request has answered 200 for two campaigns while the other, asked for
\* the same campaign ids with other answers, is still gathering its results
C14_Witness ==
    /\ DOMAIN pc = Requests2
    /\ pc["r1"] = "done"
    /\ response["r1"].status = 200
    /\ response["r1"].paused_campaigns_total = 2
    /\ pc["r2"] = "gathering"
    /\ Len(tasks["r2"]) = 2
    /\ upstream["r2"] # upstream["r1"]
    /\ \A i \in 1..2 : tasks["r2"][i].st = "done"

\* C15: under fair scheduling, with every outbound call answered or timed out,
\* every request eventually has a response; a response is only ever one of
\* 200, 400 and 500 and exists exactly when the handler has ended; and once a
\* request has its response it never gets another one.
C15_EveryRequestAnswersOnce ==
    /\ \A r \in Requests2 : <>(pc[r] = "done" /\ response[r].status \in {200, 400, 500})
    /\ [](\A r \in Requests2 :
            /\ response[r] # NoResponse <=> pc[r] = "done"
            /\ response[r] # NoResponse => response[r].status \in {200, 400, 500})
    /\ [][\A r \in Requests2 : response[r] # NoResponse => response'[r] = response[r]]_vars

\* a request answered 200 although one of its two detail calls timed out
C15_Witness ==
    \E r \in Requests2 :
        /\ \A q \in Requests2 : pc[q] = "done"
        /\ response[r].status = 200
        /\ Len(tasks[r]) = 2
        /\ \E i \in 1..2 : upstream[r].detail[tasks[r][i].campaign_id] = TimedOut

\* C16: for a payload with a token longer than the preview, no log entry of the
\* handler, the list fetch or a detail fetch contains the full access token.
C16_TokenOnlyTruncatedInLog ==
    \A r \in Requests :
        (WellFormedPayload(r) /\ Len(payload[r].access_token.s) > PreviewLen) =>
            \A k \in 1..Len(log[r]) : ~Contains(log[r][k].text, payload[r].access_token.s)

\* C17: once the list call was answered with a decodable 200 whose entries do
\* not all carry an id, the request has ended with 500, no detail fetch was ever
\* scheduled and the list call is the only outbound call, whatever the position
\* of the id-less entry.
C17_MissingIdSendsNoDetail ==
    \A r \in Requests :
        (ListSucceeded(r) /\ ~all_have_id(upstream[r].list.camps)) =>
            /\ pc[r] = "done"
            /\ response[r].status = 500
            /\ tasks[r] = <<>>
            /\ DetailCalls(r) = {}
            /\ Len(outbound[r]) = 1

\* the id-less entry comes second, after an entry with an id
C17_Witness ==
    \E r \in Requests :
        /\ pc[r] = "done"
        /\ ListSucceeded(r)
        /\ campaigns_list[r] = <<CampA, CampNoId>>
        /\ response[r].status = 500
        /\ Len(outbound[r]) = 1

====
